---- MODULE Spec2Model ----
(***************************************************************************)
(* classroomWebGolang: the entrypoint (migration, then server), the two    *)
(* handlers of /person, the record repository, the response writer and the *)
(* generic request helper HandleBody, as one state machine.                *)
(***************************************************************************)
EXTENDS Integers, Sequences, FiniteSets

\* ------------------------------------------------------------------ bounds

\* Requests the server accepts in one behaviour.
MaxReq == 2
\* Distinct values uuid.New() can return (besides the zero UUID, which it never does).
NumUUIDs == 2

\* ----------------------------------------------------------- program constants

StatusOK == 200
StatusCreated == 201
StatusBadRequest == 400
StatusInternalServerError == 500

\* ------------------------------------------------------------------ values

NoError == "<nil>"
ErrConnection == "failed to connect to database"
ErrDuplicateKey == "duplicate key value violates unique constraint"

ContentTypeJson == "application/json"
ContentTypeText == "text/plain; charset=utf-8"
NoContentType == ""

NilUUID == 0
UUIDs == 1..NumUUIDs

\* What faker.Name(), rand.Int(), gofakeit.Address().Address and gofakeit.Phone() can return.
FakeNames == {"Alice", "Carol"}
FakeAges == {30}
FakeAddresses == {"1 Main St"}
FakePhones == {"555-0100"}

\* Go values handed to the response writer or held in a handler's locals.
NilValue == [kind |-> "nil"]
RecordValue(r) == [kind |-> "record", val |-> r]
SliceValue(s) == [kind |-> "slice", val |-> s]
StringValue(s) == [kind |-> "string", val |-> s]

\* type Record struct, without the embedded *gorm.Model (nil in every record NewRecord builds).
Record(id, name, age, address, phone) ==
    [ID |-> id, Name |-> name, Age |-> age, Address |-> address, PhoneNumber |-> phone]

\* func NewRecord: every record it can return.
NewRecord ==
    { Record(id, n, a, ad, p) :
        id \in UUIDs, n \in FakeNames, a \in FakeAges, ad \in FakeAddresses, p \in FakePhones }

\* Request bodies: none (GET /person), and the person of the end-to-end example, submitted
\* to POST /person.
NoBody == [Name |-> "", Age |-> 0, Address |-> "", PhoneNumber |-> ""]
AliceBody == [Name |-> "Alice", Age |-> 30, Address |-> "1 Main St", PhoneNumber |-> "555-0100"]
PostBodies == {AliceBody}

\* ------------------------------------------------------- net/http ResponseWriter

\* A fresh http.ResponseWriter: header map empty, nothing sent. calls is the history of the
\* handler's writes (which function wrote, with which status).
NewResponseWriter ==
    [header |-> NoContentType, wroteHeader |-> FALSE, status |-> 0,
     sentContentType |-> NoContentType, body |-> <<>>, calls |-> <<>>]

\* w.Header().Set("Content-Type", ct): changes the handler's map; what was sent stays.
HeaderSet(w, ct) == [w EXCEPT !.header = ct]

\* w.WriteHeader(code): the first call sends code and a snapshot of the header map; a later
\* call is superfluous and ignored.
WriteHeader(w, code) ==
    IF w.wroteHeader THEN w
    ELSE [w EXCEPT !.wroteHeader = TRUE, !.status = code, !.sentContentType = w.header]

\* w.Write(chunk): sends the header with 200 if none was sent, then the bytes.
Write(w, chunk) ==
    LET w1 == IF w.wroteHeader THEN w ELSE WriteHeader(w, StatusOK)
    IN [w1 EXCEPT !.body = Append(w1.body, chunk)]

\* json.NewEncoder(w).Encode(data): the JSON text of data, then a newline.
JsonEncode(data) ==
    CASE data.kind = "nil" -> [type |-> "json", text |-> "null", of |-> NilValue]
      [] data.kind = "string" -> [type |-> "json", text |-> "string", of |-> data]
      [] data.kind = "record" -> [type |-> "json", text |-> "object", of |-> data]
      [] data.kind = "slice" -> [type |-> "json", text |-> "array", of |-> data]

\* fmt.Fprintln(w, msg): the text itself, then a newline.
PlainText(msg) == [type |-> "text", text |-> "plain", of |-> StringValue(msg)]

\* http.Error(w, msg, code): text/plain, the status, the message as the body.
HttpError(w, msg, code) ==
    LET w1 == HeaderSet(w, ContentTypeText)
        w2 == WriteHeader(w1, code)
        w3 == Write(w2, PlainText(msg))
    IN [w3 EXCEPT !.calls = Append(w3.calls, [fn |-> "http.Error", status |-> code])]

\* Json without its first statement: the Content-Type is never set.
JsonNoContentType(w, data, status, writeOk) ==
    LET w2 == WriteHeader(w, status)
        w3 == IF writeOk THEN Write(w2, JsonEncode(data)) ELSE w2
    IN [w |-> [w3 EXCEPT !.calls = Append(w3.calls, [fn |-> "response.Json", status |-> status])],
        fatal |-> ~writeOk]

\* response.Json(w, data, status). writeOk: whether the encoder's write to the connection
\* succeeds; when it does not, log.Fatalf ends the process.
Json(w, data, status, writeOk) ==
    LET w1 == HeaderSet(w, ContentTypeJson)
        w2 == WriteHeader(w1, status)
        w3 == IF writeOk THEN Write(w2, JsonEncode(data)) ELSE w2
    IN [w |-> [w3 EXCEPT !.calls = Append(w3.calls, [fn |-> "response.Json", status |-> status])],
        fatal |-> ~writeOk]

\* ------------------------------------------------------------ the record table

\* The table AutoMigrate creates for Record: the rows in insertion order. The column of the
\* field named ID is the primary key.
HasID(st, id) == \E i \in 1..Len(st) : st[i].ID = id

\* r.Database.Create(Record): dbOk is whether the database answers; a row with the same
\* primary key is refused. One row more on success, the table as it was on failure.
DbCreate(st, rec, dbOk) ==
    IF ~dbOk THEN [store |-> st, error |-> ErrConnection]
    ELSE IF HasID(st, rec.ID) THEN [store |-> st, error |-> ErrDuplicateKey]
    ELSE [store |-> Append(st, rec), error |-> NoError]

\* The orders in which a SELECT without ORDER BY can return n rows.
Orders(n) == { f \in [1..n -> 1..n] : \A i, j \in 1..n : i # j => f[i] # f[j] }

\* r.Database.Find(&records): every row, in the order the storage picks; the table is only read.
DbFind(st, dbOk, order) ==
    IF ~dbOk THEN [store |-> st, rows |-> <<>>, error |-> ErrConnection]
    ELSE [store |-> st, rows |-> [i \in 1..Len(st) |-> st[order[i]]], error |-> NoError]

\* CreateRecord calling Save instead of Create: a row with the same key is overwritten.
RepoCreateRecordSave(st, rec, dbOk) ==
    IF ~dbOk THEN [store |-> st, ret |-> NilValue, err |-> ErrConnection]
    ELSE IF HasID(st, rec.ID)
    THEN [store |-> [k \in 1..Len(st) |-> IF st[k].ID = rec.ID THEN rec ELSE st[k]],
          ret |-> RecordValue(rec), err |-> NoError]
    ELSE [store |-> Append(st, rec), ret |-> RecordValue(rec), err |-> NoError]

\* func (r *RecordRepository) CreateRecord
RepoCreateRecord(st, rec, dbOk) ==
    LET result == DbCreate(st, rec, dbOk)
    IN IF result.error # NoError
       THEN [store |-> result.store, ret |-> NilValue, err |-> result.error]
       ELSE [store |-> result.store, ret |-> RecordValue(rec), err |-> NoError]

\* GetRecords handing Find the slice instead of its address: the caller's slice stays empty.
RepoGetRecordsByValue(st, dbOk, order) ==
    LET result == DbFind(st, dbOk, order)
    IN IF result.error # NoError
       THEN [store |-> result.store, ret |-> NilValue, err |-> result.error]
       ELSE [store |-> result.store, ret |-> SliceValue(<<>>), err |-> NoError]

\* GetRecords deleting the rows it has read.
RepoGetRecordsPurging(st, dbOk, order) ==
    LET result == DbFind(st, dbOk, order)
    IN IF result.error # NoError
       THEN [store |-> result.store, ret |-> NilValue, err |-> result.error]
       ELSE [store |-> <<>>, ret |-> SliceValue(result.rows), err |-> NoError]

\* func (r *RecordRepository) GetRecords
RepoGetRecords(st, dbOk, order) ==
    LET result == DbFind(st, dbOk, order)
    IN IF result.error # NoError
       THEN [store |-> result.store, ret |-> NilValue, err |-> result.error]
       ELSE [store |-> result.store, ret |-> SliceValue(result.rows), err |-> NoError]

\* ------------------------------------------------------------------ handlers

\* A request the router has dispatched: the handler's locals, its response writer, and the
\* history of its gateway calls (createCalls, createOks, listCalls; at is the number of create
\* calls all handlers had made before this handler's gateway call, seen the table as the list
\* call found it).
NewRequest(method, body) ==
    [method |-> method, body |-> body,
     pc |-> IF method = "POST" THEN "new_record" ELSE "list",
     record |-> NilValue, createRecord |-> NilValue, records |-> NilValue, err |-> NoError,
     w |-> NewResponseWriter,
     createCalls |-> 0, createOks |-> 0, listCalls |-> 0, seen |-> <<>>, at |-> 0]

\* CreateRecord handler, record := NewRecord()
CreateRecordNew(req, rec) ==
    [req EXCEPT !.record = RecordValue(rec), !.pc = "create"]

\* The handler calling create a second time when the first call failed.
CreateRecordCallRetry(req, st, dbOk, made) ==
    LET res1 == RepoCreateRecord(st, req.record.val, dbOk)
        res == IF res1.err # NoError THEN RepoCreateRecord(res1.store, req.record.val, TRUE)
               ELSE res1
    IN [store |-> res.store,
        req |-> [req EXCEPT !.createRecord = res.ret, !.err = res.err, !.pc = "respond",
                            !.createCalls = @ + (IF res1.err # NoError THEN 2 ELSE 1),
                            !.at = made,
                            !.createOks = @ + (IF res.err = NoError THEN 1 ELSE 0)]]

\* CreateRecord handler, createRecord, err := h.RecordRepository.CreateRecord(record)
CreateRecordCall(req, st, dbOk, made) ==
    LET res == RepoCreateRecord(st, req.record.val, dbOk)
    IN [store |-> res.store,
        req |-> [req EXCEPT !.createRecord = res.ret, !.err = res.err, !.pc = "respond",
                            !.createCalls = @ + 1, !.at = made,
                            !.createOks = @ + (IF res.err = NoError THEN 1 ELSE 0)]]

\* The handler answering a create with 200 instead of 201.
CreateRecordRespondStatusOK(req, writeOk) ==
    LET w1 == IF req.err # NoError
              THEN HttpError(req.w, req.err, StatusInternalServerError)
              ELSE req.w
        j == Json(w1, req.createRecord, StatusOK, writeOk)
    IN [req |-> [req EXCEPT !.w = j.w, !.pc = IF j.fatal THEN "killed" ELSE "done"],
        fatal |-> j.fatal]

\* CreateRecord handler, from the error check to the end: http.Error when err is not nil,
\* then response.Json in either case.
CreateRecordRespond(req, writeOk) ==
    LET w1 == IF req.err # NoError
              THEN HttpError(req.w, req.err, StatusInternalServerError)
              ELSE req.w
        j == Json(w1, req.createRecord, StatusCreated, writeOk)
    IN [req |-> [req EXCEPT !.w = j.w, !.pc = IF j.fatal THEN "killed" ELSE "done"],
        fatal |-> j.fatal]

\* GetRecords handler, records, err := h.RecordRepository.GetRecords()
GetRecordsCall(req, st, dbOk, order, made) ==
    LET res == RepoGetRecords(st, dbOk, order)
    IN [store |-> res.store,
        req |-> [req EXCEPT !.records = res.ret, !.err = res.err, !.pc = "respond",
                            !.listCalls = @ + 1, !.seen = st, !.at = made]]

\* GetRecords handler, from the error check to the end.
GetRecordsRespond(req, writeOk) ==
    LET w1 == IF req.err # NoError
              THEN HttpError(req.w, req.err, StatusInternalServerError)
              ELSE req.w
        j == Json(w1, req.records, StatusOK, writeOk)
    IN [req |-> [req EXCEPT !.w = j.w, !.pc = IF j.fatal THEN "killed" ELSE "done"],
        fatal |-> j.fatal]

\* ------------------------------------------------------------------ start-up

\* migrations/auto.go main, one step: the stage that follows stage when its call succeeds
\* (ok) or fails (log.Fatal, exit status 1).
MigrateStep(stage, ok) ==
    IF ~ok THEN "exit1"
    ELSE CASE stage = "load_env" -> "open_db"
           [] stage = "open_db" -> "auto_migrate"
           [] stage = "auto_migrate" -> "exit0"

\* The exit status of the migration process.
MigrateExitCode(stage) == IF stage = "exit0" THEN 0 ELSE 1

\* The entrypoint without the check of the migration's exit status.
EntryIgnoreExit(code) == "exec_main"

\* entrypoint.sh after ./build/migrate has exited with code: exit 1, or exec ./build/main.
EntryAfterMigrate(code) == IF code # 0 THEN "exit1" ELSE "exec_main"

\* cmd main, one step: LoadConfig, NewDb, ListenAndServe; a failure is log.Fatal.
MainStep(stage, ok) ==
    IF ~ok THEN "fatal"
    ELSE CASE stage = "load_config" -> "new_db"
           [] stage = "new_db" -> "listen"
           [] stage = "listen" -> "serving"

\* ------------------------------------------------------------ pkg/request

\* JSON values of a request body's members.
Absent == [t |-> "absent", s |-> "", n |-> 0]
JStr(x) == [t |-> "string", s |-> x, n |-> 0]
JNum(x) == [t |-> "number", s |-> "", n |-> x]

\* Request bodies handed to Decode: bytes that are not JSON, a JSON array, and JSON objects
\* whose members Name and Age are absent, of the field's type, or of the other type.
Bodies ==
    {[form |-> "malformed", Name |-> Absent, Age |-> Absent],
     [form |-> "array", Name |-> Absent, Age |-> Absent]}
    \cup [form : {"object"},
          Name : {Absent, JStr(""), JStr("Alice"), JNum(7)},
          Age : {Absent, JNum(0), JNum(30), JStr("x")}]

\* The payload type T of the calls modelled: struct { Name string; Age int }, with a
\* `validate:"required"` tag on the fields of a set that is the call's parameter.
Fields == {"Name", "Age"}
ZeroPayload == [Name |-> "", Age |-> 0]

ErrSyntax == "invalid character looking for beginning of value"
ErrUnmarshalArray == "json: cannot unmarshal array into Go value"
ErrUnmarshalName == "json: cannot unmarshal number into Go struct field Name of type string"
ErrUnmarshalAge == "json: cannot unmarshal string into Go struct field Age of type int"
ErrRequiredName == "Field validation for 'Name' failed on the 'required' tag"
ErrRequiredAge == "Field validation for 'Age' failed on the 'required' tag"
ErrRequiredBoth == "Field validation for 'Name' failed on the 'required' tag; for 'Age' too"

\* func Decode[T any]: var payload T, then json.NewDecoder(body).Decode(&payload). A member
\* of the wrong type leaves its field zero and is reported; the other members are still read.
Decode(body) ==
    CASE body.form = "malformed" -> [payload |-> ZeroPayload, err |-> ErrSyntax]
      [] body.form = "array" -> [payload |-> ZeroPayload, err |-> ErrUnmarshalArray]
      [] body.form = "object" ->
           [payload |-> [Name |-> IF body.Name.t = "string" THEN body.Name.s ELSE "",
                         Age |-> IF body.Age.t = "number" THEN body.Age.n ELSE 0],
            err |-> IF body.Name.t = "number" THEN ErrUnmarshalName
                    ELSE IF body.Age.t = "string" THEN ErrUnmarshalAge
                    ELSE NoError]

\* func IsValid[T any]: validate.Struct(payload); a required field fails when it holds its
\* type's zero value.
IsValid(payload, required) ==
    LET name == "Name" \in required /\ payload.Name = ""
        age == "Age" \in required /\ payload.Age = 0
    IN IF name /\ age THEN ErrRequiredBoth
       ELSE IF name THEN ErrRequiredName
       ELSE IF age THEN ErrRequiredAge
       ELSE NoError

\* A call HandleBody[T](w, r) about to run: r.Body, T's required fields, a fresh writer; ret
\* and err are what it returns, isValidCalls the calls of IsValid it has made.
NewHandleBody(body, required) ==
    [pc |-> "decode", body |-> body, required |-> required, payload |-> ZeroPayload,
     err |-> NoError, ret |-> NilValue, w |-> NewResponseWriter, isValidCalls |-> 0]

\* HandleBody without the return after the decode error's response.
HandleBodyDecodeNoReturn(h, writeOk) ==
    LET d == Decode(h.body)
    IN IF d.err # NoError
       THEN LET j == Json(h.w, StringValue(d.err), StatusBadRequest, writeOk)
            IN [h |-> [h EXCEPT !.payload = d.payload, !.err = d.err, !.ret = NilValue,
                                !.w = j.w, !.pc = IF j.fatal THEN "killed" ELSE "validate"],
                fatal |-> j.fatal]
       ELSE [h |-> [h EXCEPT !.payload = d.payload, !.pc = "validate"], fatal |-> FALSE]

\* func HandleBody, from Decode to its error check: on an error response.Json with 400 and
\* return nil, err.
HandleBodyDecode(h, writeOk) ==
    LET d == Decode(h.body)
    IN IF d.err # NoError
       THEN LET j == Json(h.w, StringValue(d.err), StatusBadRequest, writeOk)
            IN [h |-> [h EXCEPT !.payload = d.payload, !.err = d.err, !.ret = NilValue,
                                !.w = j.w, !.pc = IF j.fatal THEN "killed" ELSE "returned"],
                fatal |-> j.fatal]
       ELSE [h |-> [h EXCEPT !.payload = d.payload, !.pc = "validate"], fatal |-> FALSE]

\* HandleBody returning the validation error without writing the response.
HandleBodyValidateSilent(h, writeOk) ==
    LET e == IsValid(h.payload, h.required)
        h1 == [h EXCEPT !.isValidCalls = @ + 1]
    IN IF e # NoError
       THEN [h |-> [h1 EXCEPT !.err = e, !.ret = NilValue, !.pc = "returned"], fatal |-> FALSE]
       ELSE [h |-> [h1 EXCEPT !.err = NoError, !.ret = [kind |-> "pointer", val |-> h1.payload],
                              !.pc = "returned"],
             fatal |-> FALSE]

\* func HandleBody, from IsValid to the end: on an error response.Json with 400 and
\* return nil, err; otherwise return &body, nil.
HandleBodyValidate(h, writeOk) ==
    LET e == IsValid(h.payload, h.required)
        h1 == [h EXCEPT !.isValidCalls = @ + 1]
    IN IF e # NoError
       THEN LET j == Json(h1.w, StringValue(e), StatusBadRequest, writeOk)
            IN [h |-> [h1 EXCEPT !.err = e, !.ret = NilValue,
                                 !.w = j.w, !.pc = IF j.fatal THEN "killed" ELSE "returned"],
                fatal |-> j.fatal]
       ELSE [h |-> [h1 EXCEPT !.err = NoError, !.ret = [kind |-> "pointer", val |-> h1.payload],
                              !.pc = "returned"],
             fatal |-> FALSE]

\* ------------------------------------------------------------------ state

VARIABLES
    entry,      \* entrypoint.sh: "migrate", "exit1" or "exec_main"
    migrate,    \* the migration process: "idle", its stage, "exit0" or "exit1"
    main,       \* the server process: "idle", its stage, "serving" or "fatal"
    store0,     \* the rows of the record table when the entrypoint starts
    store,      \* the rows of the record table
    reqs,       \* the requests dispatched so far, each with its handler's state
    hb          \* one call of HandleBody

vars == <<entry, migrate, main, store0, store, reqs, hb>>

RECURSIVE SumCreateCalls(_)
\* The create calls all handlers have made.
SumCreateCalls(rs) ==
    IF rs = <<>> THEN 0 ELSE rs[Len(rs)].createCalls + SumCreateCalls(SubSeq(rs, 1, Len(rs) - 1))

HBIdle == [pc |-> "idle"]

\* The database outlives the container: the table is absent or empty on a first start, and
\* holds the rows of earlier runs on a later one.
InitialTables == {<<>>, <<Record(1, "Carol", 30, "1 Main St", "555-0100")>>}

InitServer ==
    /\ entry = "migrate"
    /\ migrate = "idle"
    /\ main = "idle"
    /\ store0 \in InitialTables
    /\ store = store0
    /\ reqs = <<>>

Init == InitServer /\ hb = HBIdle

\* ------------------------------------------------------------------ actions

\* entrypoint.sh: ./build/migrate is started.
EntryRunMigrate ==
    /\ entry = "migrate" /\ migrate = "idle"
    /\ migrate' = "load_env"
    /\ UNCHANGED <<entry, main, store0, store, reqs, hb>>

\* migrations/auto.go main: godotenv.Load, gorm.Open, AutoMigrate, each able to fail.
MigrateRun ==
    /\ migrate \in {"load_env", "open_db", "auto_migrate"}
    /\ \E ok \in BOOLEAN : migrate' = MigrateStep(migrate, ok)
    /\ UNCHANGED <<entry, main, store0, store, reqs, hb>>

\* entrypoint.sh: the migration process has exited; exit 1 or exec ./build/main.
EntryMigrateExited ==
    /\ entry = "migrate" /\ migrate \in {"exit0", "exit1"}
    /\ entry' = EntryAfterMigrate(MigrateExitCode(migrate))
    /\ main' = IF entry' = "exec_main" THEN "load_config" ELSE main
    /\ UNCHANGED <<migrate, store0, store, reqs, hb>>

\* cmd main: LoadConfig, NewDb, ListenAndServe, each able to fail.
MainRun ==
    /\ main \in {"load_config", "new_db", "listen"}
    /\ \E ok \in BOOLEAN : main' = MainStep(main, ok)
    /\ UNCHANGED <<entry, migrate, store0, store, reqs, hb>>

\* The router dispatches a request of POST /person or GET /person to its handler.
Dispatch ==
    /\ main = "serving" /\ Len(reqs) < MaxReq
    /\ \/ \E body \in PostBodies : reqs' = Append(reqs, NewRequest("POST", body))
       \/ reqs' = Append(reqs, NewRequest("GET", NoBody))
    /\ UNCHANGED <<entry, migrate, main, store0, store, hb>>

PostNewRecord(i) ==
    /\ main = "serving" /\ reqs[i].method = "POST" /\ reqs[i].pc = "new_record"
    /\ \E rec \in NewRecord : reqs' = [reqs EXCEPT ![i] = CreateRecordNew(reqs[i], rec)]
    /\ UNCHANGED <<entry, migrate, main, store0, store, hb>>

PostCreate(i) ==
    /\ main = "serving" /\ reqs[i].method = "POST" /\ reqs[i].pc = "create"
    /\ \E dbOk \in BOOLEAN :
         LET r == CreateRecordCall(reqs[i], store, dbOk, SumCreateCalls(reqs))
         IN /\ store' = r.store
            /\ reqs' = [reqs EXCEPT ![i] = r.req]
    /\ UNCHANGED <<entry, migrate, main, store0, hb>>

PostRespond(i) ==
    /\ main = "serving" /\ reqs[i].method = "POST" /\ reqs[i].pc = "respond"
    /\ \E writeOk \in BOOLEAN :
         LET r == CreateRecordRespond(reqs[i], writeOk)
         IN /\ reqs' = [reqs EXCEPT ![i] = r.req]
            /\ main' = IF r.fatal THEN "fatal" ELSE main
    /\ UNCHANGED <<entry, migrate, store0, store, hb>>

GetList(i) ==
    /\ main = "serving" /\ reqs[i].method = "GET" /\ reqs[i].pc = "list"
    /\ \E dbOk \in BOOLEAN : \E order \in Orders(Len(store)) :
         LET r == GetRecordsCall(reqs[i], store, dbOk, order, SumCreateCalls(reqs))
         IN /\ store' = r.store
            /\ reqs' = [reqs EXCEPT ![i] = r.req]
    /\ UNCHANGED <<entry, migrate, main, store0, hb>>

GetRespond(i) ==
    /\ main = "serving" /\ reqs[i].method = "GET" /\ reqs[i].pc = "respond"
    /\ \E writeOk \in BOOLEAN :
         LET r == GetRecordsRespond(reqs[i], writeOk)
         IN /\ reqs' = [reqs EXCEPT ![i] = r.req]
            /\ main' = IF r.fatal THEN "fatal" ELSE main
    /\ UNCHANGED <<entry, migrate, store0, store, hb>>

Next ==
    \/ EntryRunMigrate
    \/ MigrateRun
    \/ EntryMigrateExited
    \/ MainRun
    \/ Dispatch
    \/ \E i \in 1..Len(reqs) : PostNewRecord(i)
    \/ \E i \in 1..Len(reqs) : PostCreate(i)
    \/ \E i \in 1..Len(reqs) : PostRespond(i)
    \/ \E i \in 1..Len(reqs) : GetList(i)
    \/ \E i \in 1..Len(reqs) : GetRespond(i)

Spec == Init /\ [][Next]_vars

\* A call of HandleBody in the serving process, for each body and each set of required fields.
InitHandleBody ==
    /\ entry = "exec_main"
    /\ migrate = "exit0"
    /\ main = "serving"
    /\ store0 \in InitialTables
    /\ store = store0
    /\ reqs = <<>>
    /\ \E body \in Bodies : \E required \in SUBSET Fields : hb = NewHandleBody(body, required)

HBDecode ==
    /\ main = "serving" /\ hb.pc = "decode"
    /\ \E writeOk \in BOOLEAN :
         LET r == HandleBodyDecode(hb, writeOk)
         IN /\ hb' = r.h
            /\ main' = IF r.fatal THEN "fatal" ELSE main
    /\ UNCHANGED <<entry, migrate, store0, store, reqs>>

HBValidate ==
    /\ main = "serving" /\ hb.pc = "validate"
    /\ \E writeOk \in BOOLEAN :
         LET r == HandleBodyValidate(hb, writeOk)
         IN /\ hb' = r.h
            /\ main' = IF r.fatal THEN "fatal" ELSE main
    /\ UNCHANGED <<entry, migrate, store0, store, reqs>>

NextHandleBody == HBDecode \/ HBValidate

SpecHandleBody == InitHandleBody /\ [][NextHandleBody]_vars

\* ------------------------------------------------------------------ claims

Requests == 1..Len(reqs)
IsPost(i) == reqs[i].method = "POST"
IsGet(i) == reqs[i].method = "GET"
\* The handler of request i has run to its end, or the process ended inside it.
Ended(i) == reqs[i].pc \in {"done", "killed"}

RECURSIVE SumCreateOks(_)
SumCreateOks(rs) ==
    IF rs = <<>> THEN 0 ELSE rs[Len(rs)].createOks + SumCreateOks(SubSeq(rs, 1, Len(rs) - 1))

\* C1: in both handlers, when the gateway call returns an error, the handler writes the 500
\* error response and returns: http.Error is its only write, no response.Json follows.
C1_ErrorWriteThenReturn ==
    \A i \in Requests :
        (Ended(i) /\ reqs[i].err # NoError) =>
            reqs[i].w.calls = <<[fn |-> "http.Error", status |-> StatusInternalServerError]>>

\* C2 as claimed: a POST /person whose create succeeded answers 201 with a non-empty id and
\* the name, age, address and phoneNumber submitted in the request body.
C2_SubmittedFieldsReturned ==
    \A i \in Requests :
        (IsPost(i) /\ reqs[i].pc = "done" /\ reqs[i].err = NoError) =>
            /\ reqs[i].w.status = StatusCreated
            /\ \E id \in UUIDs :
                 reqs[i].w.body =
                     <<JsonEncode(RecordValue(Record(id, reqs[i].body.Name, reqs[i].body.Age,
                                                     reqs[i].body.Address,
                                                     reqs[i].body.PhoneNumber)))>>

\* C2 as amended: a POST /person whose create succeeded and whose handler returned answers 201
\* with the record NewRecord generated for it (a non-empty id and generated name, age, address
\* and phoneNumber, whatever the body holds), and that record is a row of the table.
C2_GeneratedRecordReturned ==
    \A i \in Requests :
        (IsPost(i) /\ reqs[i].pc = "done" /\ reqs[i].err = NoError) =>
            /\ reqs[i].w.status = StatusCreated
            /\ reqs[i].record.kind = "record"
            /\ reqs[i].record.val \in NewRecord
            /\ reqs[i].record.val.ID # NilUUID
            /\ reqs[i].w.body = <<JsonEncode(reqs[i].record)>>
            /\ \E k \in 1..Len(store) : store[k] = reqs[i].record.val

\* A POST answered after a successful create whose generated name is not the submitted one.
C2_Witness ==
    \E i \in Requests :
        /\ IsPost(i) /\ reqs[i].pc = "done" /\ reqs[i].err = NoError
        /\ reqs[i].record.val.Name # reqs[i].body.Name

\* The POST requests whose create had succeeded when request i made its gateway call.
CreatedBefore(i) ==
    { j \in Requests : IsPost(j) /\ reqs[j].createOks = 1 /\ reqs[j].at < reqs[i].at }

\* rows holds exactly the records the requests of J created, each once.
ExactlyTheRecordsOf(rows, J) ==
    /\ Len(rows) = Cardinality(J)
    /\ \E f \in [1..Len(rows) -> J] :
         /\ \A a, b \in 1..Len(rows) : a # b => f[a] # f[b]
         /\ \A k \in 1..Len(rows) : rows[k] = reqs[f[k]].createRecord.val

\* C3: from an empty table, a GET /person whose list call succeeded answers 200 with an array
\* of exactly the records of the POST requests that had succeeded before it, each equal to the
\* record its POST returns.
C3_ListReturnsCreated ==
    \A i \in Requests :
        (store0 = <<>> /\ IsGet(i) /\ reqs[i].pc = "done" /\ reqs[i].err = NoError) =>
            /\ reqs[i].w.status = StatusOK
            /\ reqs[i].records.kind = "slice"
            /\ reqs[i].w.body = <<JsonEncode(reqs[i].records)>>
            /\ ExactlyTheRecordsOf(reqs[i].records.val, CreatedBefore(i))

\* A GET answered with one record or more, from a table that was empty at the start.
C3_Witness ==
    \E i \in Requests :
        /\ store0 = <<>> /\ IsGet(i) /\ reqs[i].pc = "done" /\ reqs[i].err = NoError
        /\ Len(reqs[i].records.val) >= 1

Range(seq) == { seq[k] : k \in 1..Len(seq) }
ListedOk(i) == IsGet(i) /\ reqs[i].listCalls = 1 /\ reqs[i].err = NoError

\* Two list calls that succeeded with no create call between them returned the same records.
SameListWithoutCreate ==
    \A i, j \in Requests :
        (ListedOk(i) /\ ListedOk(j) /\ reqs[i].at = reqs[j].at) =>
            Range(reqs[i].records.val) = Range(reqs[j].records.val)

\* A step in which a handler's list call is made leaves the table as it was.
ListStepLeavesStore ==
    \A i \in Requests :
        (IsGet(i) /\ reqs[i].pc = "list" /\ reqs'[i].pc # "list") => store' = store

\* C4: a list call never changes the table, whether it succeeds or fails, and two list calls
\* with no create between them return the same set of records.
C4_ListHasNoSideEffect == [][ListStepLeavesStore]_vars /\ []SameListWithoutCreate

\* Two list calls of a table that holds a row, with no create call between them.
C4_Witness ==
    \E i, j \in Requests :
        /\ i # j /\ ListedOk(i) /\ ListedOk(j) /\ reqs[i].at = reqs[j].at
        /\ Len(reqs[i].seen) >= 1

\* C5: when Decode fails, HandleBody returns the failure at once: IsValid is not called on
\* the payload, and no row is created or listed.
C5_DecodeFailureStops ==
    (hb.pc # "decode" /\ Decode(hb.body).err # NoError) =>
        /\ hb.pc \in {"returned", "killed"}
        /\ hb.isValidCalls = 0
        /\ hb.err = Decode(hb.body).err
        /\ store = store0 /\ reqs = <<>>

\* HandleBody has returned a decode failure.
C5_Witness == hb.pc = "returned" /\ Decode(hb.body).err # NoError /\ hb.err # NoError

\* C6: HandleBody writes a response exactly when it returns an error: on a decode or a
\* validation failure one response, status 400, the error's text (as response.Json encodes
\* it) as body, and a nil payload with the error; on success nothing is written and the
\* payload returned is the decoded value, with a nil error.
C6_WritesIffError ==
    hb.pc = "returned" =>
        /\ (hb.w.calls # <<>>) <=> (hb.err # NoError)
        /\ hb.err # NoError =>
             /\ hb.err \in {Decode(hb.body).err, IsValid(Decode(hb.body).payload, hb.required)}
             /\ hb.w.calls = <<[fn |-> "response.Json", status |-> StatusBadRequest]>>
             /\ hb.w.status = StatusBadRequest
             /\ hb.w.body = <<JsonEncode(StringValue(hb.err))>>
             /\ hb.ret = NilValue
        /\ hb.err = NoError =>
             /\ Decode(hb.body).err = NoError
             /\ IsValid(Decode(hb.body).payload, hb.required) = NoError
             /\ hb.w = NewResponseWriter
             /\ hb.ret = [kind |-> "pointer", val |-> Decode(hb.body).payload]

\* HandleBody has returned a validation failure of a body that decoded.
C6_Witness ==
    /\ hb.pc = "returned" /\ Decode(hb.body).err = NoError /\ hb.err # NoError
    /\ hb.isValidCalls = 1

\* C7 as claimed: every response sent, on the success and on the persistence-failure path of
\* both handlers, carries the content type application/json.
C7_AlwaysJson ==
    \A i \in Requests : reqs[i].w.wroteHeader => reqs[i].w.sentContentType = ContentTypeJson

\* C7 as amended: a response on the success path carries application/json; a response on the
\* persistence-failure path carries text/plain; charset=utf-8, the type http.Error sent with
\* the status 500, which the later response.Json no longer changes.
C7_ContentTypeByPath ==
    \A i \in Requests :
        reqs[i].w.wroteHeader =>
            /\ reqs[i].err = NoError =>
                 /\ reqs[i].w.sentContentType = ContentTypeJson
                 /\ reqs[i].w.status \in {StatusOK, StatusCreated}
            /\ reqs[i].err # NoError =>
                 /\ reqs[i].w.sentContentType = ContentTypeText
                 /\ reqs[i].w.status = StatusInternalServerError

\* A POST and a GET answered, one on the success path and one on the failure path.
C7_Witness ==
    \E i, j \in Requests :
        /\ reqs[i].pc = "done" /\ reqs[i].err = NoError
        /\ reqs[j].pc = "done" /\ reqs[j].err # NoError
        /\ reqs[i].method # reqs[j].method

\* C8: the server process is started only after the migration has exited with success; when
\* the migration fails, the entrypoint exits with status 1 and the server is never started.
C8_MigrationBeforeServer ==
    /\ main # "idle" => (migrate = "exit0" /\ entry = "exec_main")
    /\ entry = "exec_main" => migrate = "exit0"
    /\ migrate = "exit1" => (main = "idle" /\ entry \in {"migrate", "exit1"})
    /\ entry = "exit1" => (migrate = "exit1" /\ main = "idle" /\ reqs = <<>>)

\* The migration has failed and the entrypoint has exited.
C8_Witness == migrate = "exit1" /\ entry = "exit1"

\* C9: every POST handler calls create once and never again; a create call adds one row when
\* it succeeds and none when it fails, so under every interleaving the table holds one row
\* per successful create call (besides the rows it held at the start), with distinct ids.
C9_OneRowPerCreate ==
    /\ \A i \in Requests :
         /\ reqs[i].createCalls <= 1 /\ reqs[i].createOks <= reqs[i].createCalls
         /\ (IsPost(i) /\ reqs[i].pc \in {"respond", "done", "killed"}) => reqs[i].createCalls = 1
         /\ IsGet(i) => reqs[i].createCalls = 0
         /\ reqs[i].createOks = 1 <=> (reqs[i].createCalls = 1 /\ reqs[i].err = NoError)
    /\ Len(store) = Len(store0) + SumCreateOks(reqs)
    /\ \A a, b \in 1..Len(store) : a # b => store[a].ID # store[b].ID

\* Two POST requests have each created a row.
C9_Witness ==
    \E i, j \in Requests :
        /\ i # j /\ reqs[i].createOks = 1 /\ reqs[j].createOks = 1
        /\ Len(store) >= 2

\* No row of the table is modified or removed, and a handler's record keeps the id and the
\* fields it was constructed with.
RowsAndRecordsKept ==
    /\ Len(store') >= Len(store)
    /\ \A k \in 1..Len(store) : store'[k] = store[k]
    /\ \A i \in Requests : reqs[i].record.kind = "record" => reqs'[i].record = reqs[i].record

\* The record a create call was made with was constructed before the call, with its id, and
\* what a successful call stored and returned is that record.
IdAssignedBeforeCreate ==
    \A i \in Requests :
        /\ (IsPost(i) /\ reqs[i].pc # "new_record") =>
             (reqs[i].record.kind = "record" /\ reqs[i].record.val.ID \in UUIDs)
        /\ reqs[i].createOks = 1 =>
             /\ reqs[i].createRecord = reqs[i].record
             /\ \E k \in 1..Len(store) : store[k] = reqs[i].record.val

\* C10: a record's id is assigned once, at construction and before the create call, and no
\* stored record is ever modified or removed by any sequence of POST and GET requests.
C10_RecordsImmutable == [][RowsAndRecordsKept]_vars /\ []IdAssignedBeforeCreate

\* A row was created and a later request was answered after it.
C10_Witness ==
    \E i, j \in Requests :
        /\ i # j /\ reqs[i].createOks = 1 /\ reqs[j].pc = "done" /\ reqs[j].at > reqs[i].at
        /\ Len(store0) >= 1

====
